---- MODULE Spec2Model ----
(***************************************************************************)
(* Reconciliation-and-load pipeline of the CaRMS mini data platform:       *)
(* key extraction, join validation, record shaping and the transactional   *)
(* loader, as implemented in scripts/load_to_postgres.py and the two       *)
(* Dagster variants (assets/etl.py, assets/etl_assets.py).                 *)
(*                                                                         *)
(* Text cells are sequences of one-character tokens; "nbsp" stands for     *)
(* U+00A0 and "bom" for U+FEFF.  A missing cell (pandas NaN) is the value  *)
(* NaN; a missing integer (pd.NA) is NULL.                                 *)
(***************************************************************************)
EXTENDS Integers, Sequences, FiniteSets, TLC

VARIABLES
    variant,   \* which entry point runs: "script", "op" or "assets"
    d,         \* disciplines table (1503_discipline.xlsx)
    m,         \* program master table (1503_program_master.xlsx)
    x,         \* description table (1503_program_descriptions_x_section.csv)
    pc,        \* position of the run
    ids,       \* x["program_stream_id_extracted"]
    method,    \* strategy tag returned by extract_program_stream_id
    merged,    \* result of m.merge(x, ...)
    payload,   \* the five shaped row sets
    db,        \* committed content of the store
    tx,        \* content as seen inside the open transaction
    conn,      \* "none", "open" or "closed"
    err,       \* error that left the run, "none" if none
    db0,       \* committed content when the run started
    hist,      \* committed content after each commit, oldest first
    api,       \* the read API's request in progress and its response
    other      \* a second run against the same store, while it is not stepping

vars == <<variant, d, m, x, pc, ids, method, merged, payload, db, tx, conn,
          err, db0, hist, api, other>>

----------------------------------------------------------------------------
(* Bounds of the model *)

\* longest raw identifier explored by the key-extractor specification
MaxLen == 5
\* most rows of a description table in the key-extractor specification
MaxKeyRows == 3
\* most rows of the master table and of the description table in a pipeline run
MaxM == 3
MaxX == 3
\* rows per INSERT statement of execute_values: psycopg2's default page_size
\* of 100, scaled down with the tables so that a table can span two pages
PageRows == 2
\* commits after which no further run over the same source files is started
MaxCommits == 2
\* most rows of the master and description tables in the shaper specification
MaxShapeRows == 2
\* most rows of the master table and of the disciplines file in the
\* dimension specification
MaxDimRows == 2
MaxDRows == 2

----------------------------------------------------------------------------
(* Values *)

NULL == -1
NaN == <<"NaN">>

Digits == {"1", "2"}
DocChars == Digits \cup {"-", " ", "nbsp", "bom", "a"}

Min(S) == CHOOSE v \in S : \A w \in S : v <= w
Max(S) == CHOOSE v \in S : \A w \in S : v >= w

----------------------------------------------------------------------------
(* Text normalisation: _clean_text_series *)

\* Series.astype(str): a missing cell becomes the text "nan"
AsStr(v) == IF v = NaN THEN <<"n", "a", "n">> ELSE v

\* .str.replace(NBSP, " ", regex=False)
ReplaceNbsp(s) == [i \in 1..Len(s) |-> IF s[i] = "nbsp" THEN " " ELSE s[i]]

\* .str.replace(BOM, "", regex=False)
RemoveBom(s) == SelectSeq(s, LAMBDA c : c # "bom")

\* Python whitespace (str.strip and the regex class \s): U+00A0 is whitespace,
\* U+FEFF is not
IsSpace(c) == c \in {" ", "nbsp"}

IsDigit(c) == c \in Digits

\* \b needs a word character on exactly one side; of the tokens used here the
\* word characters are the digits and the letters
IsWord(c) == c \in Digits \cup {"a", "n", "z"}

\* .str.strip()
Strip(s) ==
    LET keep == {i \in 1..Len(s) : ~IsSpace(s[i])}
    IN  IF keep = {} THEN <<>> ELSE SubSeq(s, Min(keep), Max(keep))

CleanText(v) == Strip(RemoveBom(ReplaceNbsp(AsStr(v))))

----------------------------------------------------------------------------
(* The three regular expressions of extract_program_stream_id, as           *)
(* Series.str.extract applies them: the first group of the leftmost match,  *)
(* NaN when nothing matches.                                                *)

\* \d and \s over the positions a..b
AllDigit(s, a, b) == \A k \in a..b : IsDigit(s[k])

AllSpace(s, a, b) == \A k \in a..b : IsSpace(s[k])

\* (\d+)\s*$  with the group at i..j
M1At(s, i, j) ==
    /\ 1 <= i /\ i <= j /\ j <= Len(s)
    /\ AllDigit(s, i, j)
    /\ AllSpace(s, j + 1, Len(s))

\* the leftmost match, its group as long as it can be
M1(s) ==
    LET L == Len(s)
        starts == {i \in 1..L : \E j \in i..L : M1At(s, i, j)}
    IN  IF starts = {} THEN NaN
        ELSE LET i == Min(starts)
                 j == Max({k \in i..L : M1At(s, i, k)})
             IN  SubSeq(s, i, j)

\* .*-\s*(\d+)\s*$  with the hyphen at h and the group at i..j
M2At(s, h, i, j) ==
    /\ 1 <= h /\ h < i /\ i <= j /\ j <= Len(s)
    /\ s[h] = "-"
    /\ AllSpace(s, h + 1, i - 1)
    /\ AllDigit(s, i, j)
    /\ AllSpace(s, j + 1, Len(s))

\* fault: the hyphen pattern without its end anchor, .*-\s*(\d+): the
\* digits that follow the last hyphen that has digits after it
M2Unanchored(s) ==
    LET L == Len(s)
        hyphens == {h \in 1..L : s[h] = "-" /\
                       \E i \in (h + 1)..L : AllSpace(s, h + 1, i - 1)
                                              /\ IsDigit(s[i])}
    IN  IF hyphens = {} THEN NaN
        ELSE LET h == Max(hyphens)
                 i == Min({k \in (h + 1)..L : IsDigit(s[k])})
                 j == Max({k \in i..L : AllDigit(s, i, k)})
             IN  SubSeq(s, i, j)

\* .* is greedy: the match with the last hyphen that lets the rest match
M2(s) ==
    LET L == Len(s)
        hyphens == {h \in 1..L : s[h] = "-" /\
                       \E i \in (h + 1)..L : \E j \in i..L : M2At(s, h, i, j)}
    IN  IF hyphens = {} THEN NaN
        ELSE LET h == Max(hyphens)
                 i == Min({k \in (h + 1)..L : \E j \in k..L : M2At(s, h, k, j)})
                 j == Max({k \in i..L : M2At(s, h, i, k)})
             IN  SubSeq(s, i, j)

\* /\d+/(\d+)\b  with the first slash at a, the second at b, the group at b+1..j
SidAt(s, a, b, j) ==
    /\ 1 <= a /\ a + 1 < b /\ b < j /\ j <= Len(s)
    /\ s[a] = "/" /\ s[b] = "/"
    /\ AllDigit(s, a + 1, b - 1)
    /\ AllDigit(s, b + 1, j)
    /\ (j = Len(s) \/ ~IsWord(s[j + 1]))

\* the leftmost match, its groups as long as they can be
Sid(s) ==
    LET L == Len(s)
        firsts == {a \in 1..L : s[a] = "/" /\
                      \E b \in (a + 2)..L : \E j \in (b + 1)..L : SidAt(s, a, b, j)}
    IN  IF firsts = {} THEN NaN
        ELSE LET a == Min(firsts)
                 b == Min({k \in (a + 2)..L : \E j \in (k + 1)..L : SidAt(s, a, k, j)})
                 j == Max({k \in (b + 1)..L : SidAt(s, a, b, k)})
             IN  SubSeq(s, b + 1, j)

DigitVal(c) == CASE c = "1" -> 1 [] c = "2" -> 2 [] OTHER -> 0

RECURSIVE DecVal(_)
DecVal(s) == IF s = <<>> THEN 0
             ELSE 10 * DecVal(SubSeq(s, 1, Len(s) - 1)) + DigitVal(s[Len(s)])

\* pd.to_numeric(..., errors="coerce").astype("Int64") of an extracted group
ToNumeric(g) == IF g = NaN THEN NULL ELSE DecVal(g)

\* m2.fillna(m1)
FillNa(a, b) == IF a = NaN THEN b ELSE a

\* Strategy A on one cell of document_id
DocIdOf(v) == LET doc == CleanText(v) IN ToNumeric(FillNa(M2(doc), M1(doc)))

\* Strategy B on one cell of source
SrcIdOf(v) == ToNumeric(Sid(CleanText(v)))

\* the cells of the main source files, whose identifiers are computed once
MainDocs == {<<"a", "-", "1">>, <<"a", "-", "2">>, <<"a", "-", "1", "2">>, NaN}

MainSrcs == {<<"/", "2", "/", "1">>, NaN}

DocIdMain == [v \in MainDocs |-> DocIdOf(v)] @@ <<>>

SrcIdMain == [v \in MainSrcs |-> SrcIdOf(v)] @@ <<>>

DocId(v) == IF v \in MainDocs THEN DocIdMain[v] ELSE DocIdOf(v)

SrcId(v) == IF v \in MainSrcs THEN SrcIdMain[v] ELSE SrcIdOf(v)

----------------------------------------------------------------------------
(* Tables.  A table is [cols |-> set of column names, rows |-> sequence of  *)
(* records]; a cell of a column that is not in cols is never read.          *)
(* Columns that the pipeline only copies from the source into one target    *)
(* column (stream name, site, url, match iteration, section count) are      *)
(* left out of the rows.                                                     *)

HasCol(t, c) == c \in t.cols

NRows(t) == Len(t.rows)

\* out.notna().sum()
NotNa(s) == Cardinality({i \in 1..Len(s) : s[i] # NULL})

\* max(1, int(0.95 * len(x))); int() truncates, and 0.95 * n computed in
\* binary floating point truncates to floor(95 n / 100) for every n < 2 * 10^6
Threshold(n) == IF (95 * n) \div 100 >= 1 THEN (95 * n) \div 100 ELSE 1

StrategyA(t) == [i \in 1..NRows(t) |-> DocId(t.rows[i].document_id)]

StrategyB(t) == [i \in 1..NRows(t) |-> SrcId(t.rows[i].source)]

AcceptedA(t) == HasCol(t, "document_id") /\ NotNa(StrategyA(t)) >= Threshold(NRows(t))

AcceptedB(t) == HasCol(t, "source") /\ NotNa(StrategyB(t)) >= Threshold(NRows(t))

\* fault: the source URL is tried before the document identifier
extract_source_first(t) ==
    IF AcceptedB(t) THEN [ids |-> StrategyB(t), method |-> "source_url"]
    ELSE IF AcceptedA(t) THEN [ids |-> StrategyA(t), method |-> "document_id"]
    ELSE [ids |-> <<>>, method |-> "ValueError"]

\* extract_program_stream_id: method "ValueError" stands for the raise
extract_program_stream_id(t) ==
    IF AcceptedA(t) THEN [ids |-> StrategyA(t), method |-> "document_id"]
    ELSE IF AcceptedB(t) THEN [ids |-> StrategyB(t), method |-> "source_url"]
    ELSE [ids |-> <<>>, method |-> "ValueError"]

----------------------------------------------------------------------------
(* Join validation *)

\* int(x["program_stream_id_extracted"].isna().sum())
Bad(s) == Cardinality({i \in 1..Len(s) : s[i] = NULL})

\* int(x["program_stream_id_extracted"].nunique(dropna=True))
Uniq(s) == Cardinality({s[i] : i \in 1..Len(s)} \ {NULL})

\* x[x.duplicated("program_stream_id_extracted", keep=False)], first 20 rows:
\* the ids the script prints as "Sample duplicates"
Dupes(s) ==
    LET dup == {i \in 1..Len(s) : \E j \in 1..Len(s) : j # i /\ s[j] = s[i]}
        shown == {i \in dup : Cardinality({j \in dup : j < i}) < 20}
    IN  {s[i] : i \in shown}

\* the x rows matching master row i, in x order
RECURSIVE MatchesFrom(_, _, _)
MatchesFrom(key, s, j) ==
    IF j > Len(s) THEN <<>>
    ELSE (IF s[j] = key THEN <<j>> ELSE <<>>) \o MatchesFrom(key, s, j + 1)

\* m.merge(x, left_on="program_stream_id",
\*         right_on="program_stream_id_extracted", how="inner"):
\* pairs <<master row, description row>> with equal keys, in master order
RECURSIVE MergeFrom(_, _, _)
MergeFrom(mt, s, i) ==
    IF i > NRows(mt) THEN <<>>
    ELSE LET js == MatchesFrom(mt.rows[i].program_stream_id, s, 1)
         IN  [k \in 1..Len(js) |-> <<i, js[k]>>] \o MergeFrom(mt, s, i + 1)

\* fault: left_on names discipline_id instead of program_stream_id
RECURSIVE MergeOnDisciplineFrom(_, _, _)
MergeOnDisciplineFrom(mt, s, i) ==
    IF i > NRows(mt) THEN <<>>
    ELSE LET js == MatchesFrom(mt.rows[i].discipline_id, s, 1)
         IN  [k \in 1..Len(js) |-> <<i, js[k]>>]
             \o MergeOnDisciplineFrom(mt, s, i + 1)

MergeOnDiscipline(mt, s) == MergeOnDisciplineFrom(mt, s, 1)

Merge(mt, s) == MergeFrom(mt, s, 1)

\* the three rules in the order the code applies them; "ok" when all pass
Validate(mt, s) ==
    IF Bad(s) # 0 THEN "extraction incomplete"
    ELSE IF Uniq(s) # NRows(mt) THEN "id not unique/complete"
    ELSE IF Len(Merge(mt, s)) # NRows(mt) THEN "join cardinality mismatch"
    ELSE "ok"

----------------------------------------------------------------------------
(* Record shaping *)

RECURSIVE DropDuplicatesFrom(_, _)
DropDuplicatesFrom(s, i) ==
    IF i > Len(s) THEN <<>>
    ELSE (IF \E j \in 1..(i - 1) : s[j] = s[i] THEN <<>> ELSE <<s[i]>>)
         \o DropDuplicatesFrom(s, i + 1)

\* DataFrame.drop_duplicates(): the first occurrence of every row is kept
DropDuplicates(s) == DropDuplicatesFrom(s, 1)

\* m[["school_id", "school_name"]].dropna().drop_duplicates()
Schools(mt) ==
    DropDuplicates(
        SelectSeq([i \in 1..NRows(mt) |->
                       [school_id |-> mt.rows[i].school_id,
                        school_name |-> mt.rows[i].school_name]],
                  LAMBDA r : r.school_id # NULL /\ r.school_name # NaN))

\* d[["discipline_id", "discipline"]].dropna().drop_duplicates()
Disciplines(dt) ==
    DropDuplicates(
        SelectSeq([i \in 1..NRows(dt) |->
                       [discipline_id |-> dt.rows[i].discipline_id,
                        discipline |-> dt.rows[i].discipline]],
                  LAMBDA r : r.discipline_id # NULL /\ r.discipline # NaN))

\* m[[...]].copy() with match_iteration_id = 1503
ProgramStreams(mt) ==
    [i \in 1..NRows(mt) |->
        [program_stream_id |-> mt.rows[i].program_stream_id,
         discipline_id |-> mt.rows[i].discipline_id,
         school_id |-> mt.rows[i].school_id,
         school_name |-> mt.rows[i].school_name,
         program_name |-> mt.rows[i].program_name,
         match_iteration_id |-> 1503]]

\* columns of the merged frame that carry program_name: pandas adds the
\* suffixes _m and _x only when both sides have the column
MergedNameCols(mt, xt) ==
    IF HasCol(mt, "program_name") /\ HasCol(xt, "program_name")
    THEN {"program_name_m", "program_name_x"}
    ELSE IF HasCol(mt, "program_name") \/ HasCol(xt, "program_name")
    THEN {"program_name"}
    ELSE {}

\* the column projected as program_descriptions.program_name: the script
\* names program_name_x; the Dagster variants pick by presence
ProgramNameCol(v, mt, xt) ==
    IF v = "script" THEN "program_name_x"
    ELSE IF "program_name_x" \in MergedNameCols(mt, xt) THEN "program_name_x"
    ELSE IF "program_name_m" \in MergedNameCols(mt, xt) THEN "program_name_m"
    ELSE "program_name"

MasterCols == {"program_stream_id", "discipline_id", "school_id", "school_name",
               "program_name"}

\* whether shaping raises KeyError on a missing column
ShapeRaises(v, dt, mt, xt) ==
    \/ ~({"discipline_id", "discipline"} \subseteq dt.cols)
    \/ ~(MasterCols \subseteq mt.cols)
    \/ ~({"program_description_id", "source", "document_id"} \subseteq xt.cols)
    \/ ProgramNameCol(v, mt, xt) \notin MergedNameCols(mt, xt)

\* merged[[...]].rename(...): one program_descriptions row per merged row
ProgramDesc(v, mt, xt, mg) ==
    [k \in 1..Len(mg) |->
        LET mr == mt.rows[mg[k][1]]
            xr == xt.rows[mg[k][2]]
            c == ProgramNameCol(v, mt, xt)
        IN  [program_description_id |-> xr.program_description_id,
             program_stream_id |-> mr.program_stream_id,
             source_url |-> xr.source,
             document_id |-> xr.document_id,
             program_name |-> IF c = "program_name_x" THEN xr.program_name
                              ELSE IF c = "program_name_m" THEN mr.program_name
                              ELSE IF HasCol(xt, "program_name")
                                   THEN xr.program_name ELSE mr.program_name]]

meta_cols == {"document_id", "source", "n_program_description_sections",
              "program_name", "match_iteration_name", "match_iteration_id",
              "program_description_id", "program_stream_id_extracted"}

\* x["program_stream_id_extracted"]: the helper column the pipeline appends
HelperCol == "program_stream_id_extracted"

\* the columns a description file can have, in file order, the helper last
XColOrder == <<"document_id", "source", "program_name",
               "program_description_id", "summary", "notes", HelperCol>>

\* [c for c in x.columns if c not in meta_cols]
section_cols(xt) ==
    SelectSeq(XColOrder,
              LAMBDA c : c \in xt.cols \cup {HelperCol} /\ c \notin meta_cols)

\* row.get(c); the helper cell holds the extracted id, whose str() is a
\* non-empty run of digits
Cell(xr, c) == IF c = HelperCol THEN <<"1">> ELSE xr[c]

\* fault: whitespace-only cells are not skipped
RECURSIVE RowSectionsKeepBlank(_, _, _)
RowSectionsKeepBlank(xr, cs, k) ==
    IF k > Len(cs) THEN <<>>
    ELSE LET val == Cell(xr, cs[k])
         IN  (IF val = NaN THEN <<>>
              ELSE <<[program_description_id |-> xr.program_description_id,
                      section_name |-> cs[k],
                      section_text |-> Strip(val)]>>)
             \o RowSectionsKeepBlank(xr, cs, k + 1)

\* the inner loop of the flattening for one description row
RECURSIVE RowSections(_, _, _)
RowSections(xr, cs, k) ==
    IF k > Len(cs) THEN <<>>
    ELSE LET val == Cell(xr, cs[k])
             text == Strip(val)
         IN  (IF val = NaN \/ text = <<>> THEN <<>>
              ELSE <<[program_description_id |-> xr.program_description_id,
                      section_name |-> cs[k],
                      section_text |-> text]>>)
             \o RowSections(xr, cs, k + 1)

\* for _, row in x.iterrows(): rows without program_description_id are skipped
RECURSIVE SectionRowsFrom(_, _)
SectionRowsFrom(xt, i) ==
    IF i > NRows(xt) THEN <<>>
    ELSE (IF xt.rows[i].program_description_id = NULL THEN <<>>
          ELSE RowSections(xt.rows[i], section_cols(xt), 1))
         \o SectionRowsFrom(xt, i + 1)

SectionRows(xt) == SectionRowsFrom(xt, 1)

\* the five shaped row sets
Shape(v, dt, mt, xt, mg) ==
    [disciplines |-> Disciplines(dt),
     schools |-> Schools(mt),
     program_streams |-> ProgramStreams(mt),
     program_desc |-> ProgramDesc(v, mt, xt, mg),
     section_rows |-> SectionRows(xt)]

----------------------------------------------------------------------------
(* The store and the statements the loader sends *)

EmptyStore ==
    [disciplines |-> {}, schools |-> {}, program_streams |-> {},
     program_descriptions |-> {}, sections |-> <<>>, seq |-> 1]

NoTx == [active |-> FALSE, s |-> EmptyStore]

NoErr == [kind |-> "none", exc |-> "none", at |-> "none", named |-> {},
          chained |-> FALSE]

NoResp == [status |-> 0, body |-> <<>>]

\* no second run
NoOther == [pc |-> "none"]

\* no request in progress
ApiIdle == [req |-> "none", id |-> 0, pc |-> "idle", conn |-> "none",
            ps |-> {}, pd |-> {}, resp |-> NoResp]

\* fault: TRUNCATE without RESTART IDENTITY
TruncatedKeepIdentity(s) == [EmptyStore EXCEPT !.seq = s.seq]

\* fault: the TRUNCATE statement is missing
NotTruncated(s) == s

\* TRUNCATE ... RESTART IDENTITY CASCADE
Truncated(s) == EmptyStore

\* execute_values sends one INSERT per page of the argument list
RECURSIVE Pages(_, _)
Pages(rows, n) ==
    IF Len(rows) = 0 THEN <<>>
    ELSE IF Len(rows) <= n THEN <<rows>>
    ELSE <<SubSeq(rows, 1, n)>> \o Pages(SubSeq(rows, n + 1, Len(rows)), n)

\* INSERT ... ON CONFLICT (key) DO UPDATE refuses a statement that would
\* touch one key twice
TouchesTwice(page, key) ==
    \E i, j \in 1..Len(page) : i < j /\ page[i][key] = page[j][key]

RECURSIVE UpsertRows(_, _, _, _)
UpsertRows(tbl, page, key, i) ==
    IF i > Len(page) THEN tbl
    ELSE UpsertRows({t \in tbl : t[key] # page[i][key]} \cup {page[i]},
                    page, key, i + 1)

\* the pages in order; ok is FALSE when a statement raised
RECURSIVE UpsertPages(_, _, _, _)
UpsertPages(tbl, pages, key, k) ==
    IF k > Len(pages) THEN [ok |-> TRUE, tbl |-> tbl]
    ELSE IF TouchesTwice(pages[k], key) THEN [ok |-> FALSE, tbl |-> tbl]
    ELSE UpsertPages(UpsertRows(tbl, pages[k], key, 1), pages, key, k + 1)

\* execute_values(cur, "INSERT ... ON CONFLICT (key) DO UPDATE ...", rows)
Upsert(tbl, rows, key) == UpsertPages(tbl, Pages(rows, PageRows), key, 1)

\* execute_values(cur, "INSERT INTO program_description_sections ...", rows):
\* no conflict target, every row is appended under the next identity value
InsertSections(s, rows) ==
    [s EXCEPT !.sections = @ \o [k \in 1..Len(rows) |->
                                    [id |-> s.seq + k - 1,
                                     program_description_id |-> rows[k].program_description_id,
                                     section_name |-> rows[k].section_name,
                                     section_text |-> rows[k].section_text]],
              !.seq = @ + Len(rows)]

NoPayload ==
    [disciplines |-> <<>>, schools |-> <<>>, program_streams |-> <<>>,
     program_desc |-> <<>>, section_rows |-> <<>>]

----------------------------------------------------------------------------
(* The run, step by step *)

Variants == {"script", "op", "assets"}

\* fault: the op-based job leaves validation the way the script does
ValidationExcOpExits(v) == IF v = "assets" THEN "Exception" ELSE "SystemExit"

\* validation failures leave the script through SystemExit(1) and the
\* Dagster variants through Exception
ValidationExc(v) == IF v = "script" THEN "SystemExit" ELSE "Exception"

Fail(kind, exc, at, named) ==
    /\ err' = [kind |-> kind, exc |-> exc, at |-> at, named |-> named,
               chained |-> FALSE]
    /\ pc' = "failed"

ExtractOk ==
    /\ pc = "start"
    /\ LET r == extract_program_stream_id(x)
       IN  /\ r.method # "ValueError"
           /\ ids' = r.ids
           /\ method' = r.method
    /\ pc' = "extracted"
    /\ UNCHANGED <<other, api, variant, d, m, x, merged, payload, db, tx, conn, err, db0, hist>>

ExtractFail ==
    /\ pc = "start"
    /\ extract_program_stream_id(x).method = "ValueError"
    /\ Fail("unresolvable identifier", "ValueError", "extract", {})
    /\ UNCHANGED <<other, api, variant, d, m, x, ids, method, merged, payload, db, tx,
                   conn, db0, hist>>

\* fault: the null check is not applied
NullCheckSkipped ==
    /\ pc = "extracted"
    /\ pc' = "nonnull"
    /\ UNCHANGED <<other, api, variant, d, m, x, ids, method, merged, payload, db, tx,
                   conn, err, db0, hist>>

NullCheckOk ==
    /\ pc = "extracted"
    /\ Bad(ids) = 0
    /\ pc' = "nonnull"
    /\ UNCHANGED <<other, api, variant, d, m, x, ids, method, merged, payload, db, tx,
                   conn, err, db0, hist>>

NullCheckFail ==
    /\ pc = "extracted"
    /\ Bad(ids) # 0
    /\ Fail("extraction incomplete", ValidationExc(variant), "nullcheck", {})
    /\ UNCHANGED <<other, api, variant, d, m, x, ids, method, merged, payload, db, tx,
                   conn, db0, hist>>

\* fault: the uniqueness rule is not applied
UniqCheckSkipped ==
    /\ pc = "nonnull"
    /\ pc' = "unique"
    /\ UNCHANGED <<other, api, variant, d, m, x, ids, method, merged, payload, db, tx,
                   conn, err, db0, hist>>

UniqCheckOk ==
    /\ pc = "nonnull"
    /\ Uniq(ids) = NRows(m)
    /\ pc' = "unique"
    /\ UNCHANGED <<other, api, variant, d, m, x, ids, method, merged, payload, db, tx,
                   conn, err, db0, hist>>

UniqCheckFail ==
    /\ pc = "nonnull"
    /\ Uniq(ids) # NRows(m)
    /\ Fail("id not unique/complete", ValidationExc(variant), "uniqcheck",
            IF variant = "script" THEN Dupes(ids) ELSE {})
    /\ UNCHANGED <<other, api, variant, d, m, x, ids, method, merged, payload, db, tx,
                   conn, db0, hist>>

JoinOk ==
    /\ pc = "unique"
    /\ Len(Merge(m, ids)) = NRows(m)
    /\ merged' = Merge(m, ids)
    /\ pc' = "joined"
    /\ UNCHANGED <<other, api, variant, d, m, x, ids, method, payload, db, tx, conn, err,
                   db0, hist>>

JoinFail ==
    /\ pc = "unique"
    /\ Len(Merge(m, ids)) # NRows(m)
    /\ merged' = Merge(m, ids)
    /\ Fail("join cardinality mismatch", ValidationExc(variant), "join", {})
    /\ UNCHANGED <<other, api, variant, d, m, x, ids, method, payload, db, tx, conn, db0, hist>>

\* what one entry point does with its three files up to the load: the
\* error it raises, or the payload it hands to the loader
RunOutcome(v, dt, mt, xt) ==
    LET r == extract_program_stream_id(xt)
    IN  IF r.method = "ValueError"
        THEN [kind |-> "unresolvable identifier", exc |-> "ValueError",
              payload |-> NoPayload]
        ELSE IF Validate(mt, r.ids) # "ok"
        THEN [kind |-> Validate(mt, r.ids), exc |-> ValidationExc(v),
              payload |-> NoPayload]
        ELSE IF ShapeRaises(v, dt, mt, xt)
        THEN [kind |-> "column missing", exc |-> "KeyError",
              payload |-> NoPayload]
        ELSE [kind |-> "none", exc |-> "none",
              payload |-> Shape(v, dt, mt, xt, Merge(mt, r.ids))]

ShapeOk ==
    /\ pc = "joined"
    /\ ~ShapeRaises(variant, d, m, x)
    /\ payload' = Shape(variant, d, m, x, merged)
    /\ pc' = "shaped"
    /\ UNCHANGED <<other, api, variant, d, m, x, ids, method, merged, db, tx, conn, err,
                   db0, hist>>

ShapeFail ==
    /\ pc = "joined"
    /\ ShapeRaises(variant, d, m, x)
    /\ Fail("column missing", "KeyError", "shape", {})
    /\ UNCHANGED <<other, api, variant, d, m, x, ids, method, merged, payload, db, tx,
                   conn, db0, hist>>

\* conn = get_conn(); conn.autocommit = False
Connect ==
    /\ pc = "shaped"
    /\ conn' = "open"
    /\ tx' = [active |-> TRUE, s |-> db]
    /\ pc' = "connected"
    /\ UNCHANGED <<other, api, variant, d, m, x, ids, method, merged, payload, db, err,
                   db0, hist>>

\* psycopg2.connect raises before the try block is entered
ConnectFail ==
    /\ pc = "shaped"
    /\ Fail("connect", "OperationalError", "connect", {})
    /\ UNCHANGED <<other, api, variant, d, m, x, ids, method, merged, payload, db, tx,
                   conn, db0, hist>>

LoadError(at) == [kind |-> "load", exc |-> "DatabaseError", at |-> at,
                  named |-> {}, chained |-> FALSE]

\* the statement that follows each position inside the try block
StepAfter(p) ==
    CASE p = "connected" -> "truncate"
      [] p = "truncated" -> "disciplines"
      [] p = "disciplines" -> "schools"
      [] p = "schools" -> "program_streams"
      [] p = "program_streams" -> "program_descriptions"
      [] p = "program_descriptions" -> "sections"
      [] OTHER -> "commit"

\* the read API's transaction has read a table: its ACCESS SHARE lock lasts
\* until the connection is closed
ReaderHoldsLock ==
    /\ api.conn = "open"
    /\ \/ api.pc \in {"got_ps", "got_pd"}
       \/ api.pc = "finally" /\ (api.resp.status # 500 \/ api.ps # {})

\* the loader's transaction has truncated: its ACCESS EXCLUSIVE lock on the
\* five tables lasts until the transaction ends
LoaderHoldsLock ==
    /\ tx.active
    /\ pc # "connected"
    /\ ~(pc \in {"except", "finally"} /\ err.at = "truncate")

\* the second run's transaction has truncated and has not ended
OtherHoldsLock ==
    /\ other.pc \notin {"none", "shaped", "connected"}
    /\ other.tx.active
    /\ ~(other.pc \in {"except", "finally"} /\ other.err.at = "truncate")

\* fault: the connection is left in autocommit mode
TruncateAutocommit ==
    /\ pc = "connected"
    /\ ~ReaderHoldsLock
    /\ ~OtherHoldsLock
    /\ tx' = [tx EXCEPT !.s = Truncated(@)]
    /\ db' = Truncated(db)
    /\ pc' = "truncated"
    /\ UNCHANGED <<other, api, variant, d, m, x, ids, method, merged, payload, conn, err,
                   db0, hist>>

\* TRUNCATE waits for every other transaction that has read the tables
Truncate ==
    /\ pc = "connected"
    /\ ~ReaderHoldsLock
    /\ ~OtherHoldsLock
    /\ tx' = [tx EXCEPT !.s = Truncated(@)]
    /\ pc' = "truncated"
    /\ UNCHANGED <<other, api, variant, d, m, x, ids, method, merged, payload, db, conn,
                   err, db0, hist>>

\* one execute_values upsert; a statement touching a key twice raises
UpsertStep(from, table, rows, key) ==
    /\ pc = from
    /\ LET r == Upsert(tx.s[table], rows, key)
       IN  IF r.ok
           THEN /\ tx' = [tx EXCEPT !.s[table] = r.tbl]
                /\ pc' = table
                /\ UNCHANGED err
           ELSE /\ err' = LoadError(table)
                /\ pc' = "except"
                /\ UNCHANGED tx
    /\ UNCHANGED <<other, api, variant, d, m, x, ids, method, merged, payload, db, conn,
                   db0, hist>>

InsertDisciplines ==
    UpsertStep("truncated", "disciplines", payload.disciplines, "discipline_id")

InsertSchools ==
    UpsertStep("disciplines", "schools", payload.schools, "school_id")

InsertProgramStreams ==
    UpsertStep("schools", "program_streams", payload.program_streams,
               "program_stream_id")

InsertProgramDescriptions ==
    UpsertStep("program_streams", "program_descriptions", payload.program_desc,
               "program_description_id")

InsertSectionRows ==
    /\ pc = "program_descriptions"
    /\ tx' = [tx EXCEPT !.s = InsertSections(@, payload.section_rows)]
    /\ pc' = "sections"
    /\ UNCHANGED <<other, api, variant, d, m, x, ids, method, merged, payload, db, conn,
                   err, db0, hist>>

\* fault: the commit is issued before the section insert
CommitEarly ==
    /\ pc = "program_descriptions"
    /\ db' = tx.s
    /\ hist' = Append(hist, tx.s)
    /\ tx' = NoTx
    /\ pc' = "finally"
    /\ UNCHANGED <<other, api, variant, d, m, x, ids, method, merged, payload, conn, err,
                   db0>>

\* conn.commit()
Commit ==
    /\ pc = "sections"
    /\ db' = tx.s
    /\ hist' = Append(hist, tx.s)
    /\ tx' = NoTx
    /\ pc' = "finally"
    /\ UNCHANGED <<other, api, variant, d, m, x, ids, method, merged, payload, conn, err,
                   db0>>

\* any statement of the try block may raise a database error (lost
\* connection, constraint, lock timeout), whatever the rows are
StatementRaises ==
    /\ pc \in {"connected", "truncated", "disciplines", "schools",
               "program_streams", "program_descriptions"}
    /\ err' = LoadError(StepAfter(pc))
    /\ pc' = "except"
    /\ UNCHANGED <<other, api, variant, d, m, x, ids, method, merged, payload, db, tx,
                   conn, db0, hist>>

\* conn.commit() raises: the server may or may not have made the
\* transaction durable before the failure
CommitRaises ==
    /\ pc = "sections"
    /\ \/ UNCHANGED <<db, hist>>
       \/ db' = tx.s /\ hist' = Append(hist, tx.s)
    /\ err' = LoadError("commit")
    /\ pc' = "except"
    /\ UNCHANGED <<other, api, variant, d, m, x, ids, method, merged, payload, tx, conn,
                   db0>>

\* KeyboardInterrupt or SystemExit inside the try block: not an Exception,
\* so the except branch is skipped and only the finally block runs
Interrupt ==
    /\ pc \in {"connected", "truncated", "disciplines", "schools",
               "program_streams", "program_descriptions", "sections"}
    /\ err' = [kind |-> "interrupt", exc |-> "KeyboardInterrupt",
               at |-> StepAfter(pc), named |-> {}, chained |-> FALSE]
    /\ pc' = "finally"
    /\ UNCHANGED <<other, api, variant, d, m, x, ids, method, merged, payload, db, tx,
                   conn, db0, hist>>

\* fault: the server commits the open transaction of a lost session
KillCommits ==
    /\ pc \in {"connected", "truncated", "disciplines", "schools",
               "program_streams", "program_descriptions", "sections"}
    /\ err' = [kind |-> "killed", exc |-> "none", at |-> StepAfter(pc),
               named |-> {}, chained |-> FALSE]
    /\ conn' = "lost"
    /\ db' = tx.s
    /\ tx' = NoTx
    /\ pc' = "failed"
    /\ UNCHANGED <<other, api, variant, d, m, x, ids, method, merged, payload, db0,
                   hist>>

\* the process is killed inside the try block: no handler runs, and the
\* server aborts the open transaction when the session disappears
Kill ==
    /\ pc \in {"connected", "truncated", "disciplines", "schools",
               "program_streams", "program_descriptions", "sections"}
    /\ err' = [kind |-> "killed", exc |-> "none", at |-> StepAfter(pc),
               named |-> {}, chained |-> FALSE]
    /\ conn' = "lost"
    /\ tx' = NoTx
    /\ pc' = "failed"
    /\ UNCHANGED <<other, api, variant, d, m, x, ids, method, merged, payload, db, db0,
                   hist>>

\* except Exception: conn.rollback(); raise
Rollback ==
    /\ pc = "except"
    /\ tx' = NoTx
    /\ pc' = "finally"
    /\ UNCHANGED <<other, api, variant, d, m, x, ids, method, merged, payload, db, conn,
                   err, db0, hist>>

\* fault: no finally block, so a raising rollback leaves the function with
\* the connection open
RollbackRaisesUnscoped ==
    /\ pc = "except"
    /\ err' = [err EXCEPT !.exc = "InterfaceError", !.chained = TRUE]
    /\ pc' = "failed"
    /\ UNCHANGED <<other, api, variant, d, m, x, ids, method, merged, payload, db, tx,
                   conn, db0, hist>>

\* conn.rollback() raises on a dead connection: its exception replaces the
\* one being handled, which stays attached as its context
RollbackRaises ==
    /\ pc = "except"
    /\ err' = [err EXCEPT !.exc = "InterfaceError", !.chained = TRUE]
    /\ pc' = "finally"
    /\ UNCHANGED <<other, api, variant, d, m, x, ids, method, merged, payload, db, tx,
                   conn, db0, hist>>

\* finally: conn.close(); closing discards whatever the transaction held
Close ==
    /\ pc = "finally"
    /\ conn' = "closed"
    /\ tx' = NoTx
    /\ pc' = IF err.kind = "none" THEN "done" ELSE "failed"
    /\ UNCHANGED <<other, api, variant, d, m, x, ids, method, merged, payload, db, err,
                   db0, hist>>

\* the next run of the same entry point over the same files
Rerun ==
    /\ pc \in {"done", "failed"}
    /\ Len(hist) < MaxCommits
    /\ pc' = "start"
    /\ ids' = <<>> /\ method' = "none" /\ merged' = <<>>
    /\ payload' = NoPayload
    /\ tx' = NoTx /\ conn' = "none" /\ err' = NoErr
    /\ db0' = db
    /\ UNCHANGED <<other, api, variant, d, m, x, db, hist>>

----------------------------------------------------------------------------
(* The read API, one request at a time *)

pvars == <<variant, d, m, x, pc, ids, method, merged, payload, db, tx, conn,
           err, db0, hist, other>>

\* identifiers a client asks for: streams of both exports, of the new one
\* only, of the old one only, and of neither
RequestIds == {1, 2, 21, 3}

\* conn = get_conn() at the top of a handler
ApiBegin ==
    /\ api.pc \in {"idle", "done"}
    /\ \E r \in {"disciplines", "detail"} :
       \E i \in (IF r = "detail" THEN RequestIds ELSE {0}) :
          api' = [ApiIdle EXCEPT !.req = r, !.id = i, !.pc = "connected",
                                 !.conn = "open"]
    /\ UNCHANGED pvars

\* fault: the SELECT reads the loader's uncommitted rows without waiting
ListDisciplinesDirty ==
    /\ api.req = "disciplines"
    /\ api.pc = "connected"
    /\ api' = [api EXCEPT
                  !.resp = [status |-> 200,
                            body |-> IF tx.active THEN tx.s.disciplines
                                     ELSE db.disciplines],
                  !.pc = "finally"]
    /\ UNCHANGED pvars

\* GET /disciplines: the SELECT waits while the loader holds its lock and
\* then reads what is committed
list_disciplines ==
    /\ api.req = "disciplines"
    /\ api.pc = "connected"
    /\ ~LoaderHoldsLock
    /\ api' = [api EXCEPT !.resp = [status |-> 200, body |-> db.disciplines],
                          !.pc = "finally"]
    /\ UNCHANGED pvars

\* fault: a missing program is answered like a program without description
ProgramQueryNo404 ==
    /\ api.req = "detail"
    /\ api.pc = "connected"
    /\ ~LoaderHoldsLock
    /\ LET ps == {r \in db.program_streams : r.program_stream_id = api.id}
       IN  IF ps = {}
           THEN api' = [api EXCEPT !.resp = [status |-> 200, body |-> <<>>],
                                   !.pc = "finally"]
           ELSE \E r \in ps : api' = [api EXCEPT !.ps = {r}, !.pc = "got_ps"]
    /\ UNCHANGED pvars

\* GET /programs/{id}, first query: ps = cur.fetchone(); 404 if not ps
ProgramQuery ==
    /\ api.req = "detail"
    /\ api.pc = "connected"
    /\ ~LoaderHoldsLock
    /\ LET ps == {r \in db.program_streams : r.program_stream_id = api.id}
       IN  IF ps = {}
           THEN api' = [api EXCEPT !.resp = [status |-> 404, body |-> <<>>],
                                   !.pc = "finally"]
           ELSE \E r \in ps : api' = [api EXCEPT !.ps = {r}, !.pc = "got_ps"]
    /\ UNCHANGED pvars

\* second query: pd = cur.fetchone(), any one of the stream's descriptions
DescriptionQuery ==
    /\ api.pc = "got_ps"
    /\ LET pds == {r \in db.program_descriptions :
                      r.program_stream_id = api.id}
       IN  \/ pds = {} /\ api' = [api EXCEPT !.pd = {}, !.pc = "got_pd"]
           \/ \E r \in pds : api' = [api EXCEPT !.pd = {r}, !.pc = "got_pd"]
    /\ UNCHANGED pvars

\* ORDER BY section_name over the names a section can have
SectionNameOrder == <<"notes", "summary">>

RECURSIVE SectionsOf(_, _, _)
SectionsOf(s, pdid, k) ==
    IF k > Len(SectionNameOrder) THEN <<>>
    ELSE [i \in 1..Len(SelectSeq(s.sections,
                 LAMBDA r : r.program_description_id = pdid
                            /\ r.section_name = SectionNameOrder[k])) |->
            LET r == SelectSeq(s.sections,
                         LAMBDA q : q.program_description_id = pdid
                                    /\ q.section_name = SectionNameOrder[k])[i]
            IN  [section_name |-> r.section_name,
                 section_text |-> r.section_text]]
         \o SectionsOf(s, pdid, k + 1)

\* the four columns the handler selects from program_descriptions, of which
\* the store keeps two
DescriptionHeader(r) ==
    [program_description_id |-> r.program_description_id,
     source_url |-> r.source_url]

\* the body of the 200 answer
DetailBody(ps, pd, sections) ==
    [program |-> ps, description |-> pd, sections |-> sections]

\* third query, run only if pd, and the return statement
SectionsQuery ==
    /\ api.pc = "got_pd"
    /\ LET sections ==
               IF api.pd = {} THEN <<>>
               ELSE SectionsOf(db, (CHOOSE r \in api.pd : TRUE).program_description_id, 1)
       IN  api' = [api EXCEPT
                      !.resp = [status |-> 200,
                                body |-> DetailBody(api.ps,
                                            {DescriptionHeader(r) : r \in api.pd},
                                            sections)],
                      !.pc = "finally"]
    /\ UNCHANGED pvars

\* a query raises a database error: the handler is left through finally
\* and the framework answers 500
ApiStatementRaises ==
    /\ api.pc \in {"connected", "got_ps", "got_pd"}
    /\ api' = [api EXCEPT !.resp = [status |-> 500, body |-> <<>>],
                          !.pc = "finally"]
    /\ UNCHANGED pvars

\* finally: conn.close()
ApiClose ==
    /\ api.pc = "finally"
    /\ api' = [api EXCEPT !.conn = "closed", !.pc = "done"]
    /\ UNCHANGED pvars

Next ==
    \/ ExtractOk \/ ExtractFail
    \/ NullCheckOk \/ NullCheckFail
    \/ UniqCheckOk \/ UniqCheckFail
    \/ JoinOk \/ JoinFail
    \/ ShapeOk \/ ShapeFail
    \/ Connect \/ ConnectFail
    \/ Truncate
    \/ InsertDisciplines \/ InsertSchools
    \/ InsertProgramStreams \/ InsertProgramDescriptions
    \/ InsertSectionRows
    \/ Commit \/ CommitRaises \/ StatementRaises
    \/ Rollback \/ RollbackRaises
    \/ Interrupt \/ Kill
    \/ Close
    \/ Rerun

----------------------------------------------------------------------------
(* Source files and earlier content of the store *)

DCols == {"discipline_id", "discipline"}
XCols == {"document_id", "source", "program_description_id", "program_name",
          "summary"}

Table(cols, rows) == [cols |-> cols, rows |-> rows]

DFile == Table(DCols, <<[discipline_id |-> 1, discipline |-> <<"s">>]>>)

MRow(id, name) ==
    [program_stream_id |-> id, discipline_id |-> 1, school_id |-> 5,
     school_name |-> <<"s">>, program_name |-> name]

\* streams 1 and 2, and a second master row for stream 1
MRowsMain == {MRow(1, <<"a">>), MRow(2, <<"a">>), MRow(1, <<"b">>)}

SrcSample == <<"/", "2", "/", "1">>

XRow(doc, src, pdid) ==
    [document_id |-> doc, source |-> src, program_description_id |-> pdid,
     program_name |-> <<"a">>, summary |-> <<" ", "t", " ">>]

\* descriptions of streams 1 (two of them), 2 and 12, one description id
\* used twice, and a row without identifier
XRowsMain ==
    {XRow(<<"a", "-", "1">>, SrcSample, 9),
     XRow(<<"a", "-", "1">>, SrcSample, 10),
     XRow(<<"a", "-", "2">>, SrcSample, 10),
     XRow(<<"a", "-", "1", "2">>, SrcSample, 9),
     XRow(NaN, SrcSample, 9)}

\* description files that lack the document_id column
XRowsNoDoc == {XRow(NaN, SrcSample, 9), XRow(NaN, NaN, 9)}

\* what a committed run over dt, mt, xt leaves in an empty store, when its
\* input passes validation and no statement raises
Loaded(v, dt, mt, xt) ==
    LET p == Shape(v, dt, mt, xt, Merge(mt, StrategyA(xt)))
    IN  InsertSections(
            [EmptyStore EXCEPT
                !.disciplines = Upsert({}, p.disciplines, "discipline_id").tbl,
                !.schools = Upsert({}, p.schools, "school_id").tbl,
                !.program_streams =
                    Upsert({}, p.program_streams, "program_stream_id").tbl,
                !.program_descriptions =
                    Upsert({}, p.program_desc, "program_description_id").tbl],
            p.section_rows)

\* the content an earlier run left: streams 1 and 21 of an older export
OldStore ==
    Loaded("script",
           Table(DCols, <<[discipline_id |-> 1, discipline |-> <<"o">>],
                          [discipline_id |-> 2, discipline |-> <<"o">>]>>),
           Table(MasterCols,
                 <<[MRow(1, <<"o">>) EXCEPT !.school_name = <<"o">>],
                   [MRow(21, <<"o">>) EXCEPT !.discipline_id = 2, !.school_id = 6]>>),
           Table(XCols,
                 <<[XRow(<<"o", "-", "1">>, SrcSample, 9) EXCEPT !.summary = <<"o">>],
                   [XRow(<<"o", "-", "2", "1">>, SrcSample, 11)
                        EXCEPT !.summary = <<"o">>]>>))

PriorStores == {EmptyStore, OldStore}

InitWith(V, DF, MF, XF, DB) ==
    /\ variant \in V
    /\ d \in DF
    /\ m \in MF
    /\ x \in XF
    /\ db \in DB
    /\ db0 = db
    /\ pc = "start"
    /\ ids = <<>>
    /\ method = "none"
    /\ merged = <<>>
    /\ payload = NoPayload
    /\ tx = NoTx
    /\ conn = "none"
    /\ err = NoErr
    /\ hist = <<>>
    /\ api = ApiIdle
    /\ other = NoOther

\* up to MaxM master rows and up to MaxX description rows in any order, or
\* a description file without the document_id column
Init ==
    /\ \E k \in 0..MaxM : \E r \in [1..k -> MRowsMain] :
           m = Table(MasterCols, r)
    /\ \/ \E k \in 0..MaxX : \E r \in [1..k -> XRowsMain] :
              x = Table(XCols, r)
       \/ \E k \in 0..1 : \E r \in [1..k -> XRowsNoDoc] :
              x = Table(XCols \ {"document_id"}, r)
    /\ InitWith(Variants, {DFile}, {m}, {x}, PriorStores)

Spec == Init /\ [][Next]_vars

----------------------------------------------------------------------------
(* The key extractor on its own: one description file, one call *)

SrcChars == Digits \cup {"/", "a", "nbsp"}

KeyRows == {XRow(<<"a", "-", "1">>, SrcSample, 9), XRow(<<"a", "-", "1">>, NaN, 9),
            XRow(NaN, SrcSample, 9), XRow(NaN, NaN, 9)}

\* one identifier of any shape up to MaxLen, one source URL of any shape when
\* the document_id column is absent, or a few rows with either column absent
KeyInit ==
    /\ \/ \E k \in 0..MaxLen : \E doc \in [1..k -> DocChars] :
              x = Table(XCols, <<XRow(doc, SrcSample, 9)>>)
       \/ \E k \in 0..MaxLen : \E src \in [1..k -> SrcChars] :
              x = Table(XCols \ {"document_id"}, <<XRow(NaN, src, 9)>>)
       \/ \E gone \in SUBSET {"document_id", "source"} :
          \E k \in 0..MaxKeyRows : \E r \in [1..k -> KeyRows] :
              x = Table(XCols \ gone, r)
    /\ InitWith({"script"}, {DFile}, {Table(MasterCols, <<>>)}, {x}, {EmptyStore})

KeyNext == ExtractOk \/ ExtractFail

SpecKey == KeyInit /\ [][KeyNext]_vars

----------------------------------------------------------------------------
(* The record shaper on its own: a validated merge, one call.  Row i of the  *)
(* master table and row i of the description table carry the same id; the    *)
(* cells of the description rows and the columns of both files vary.         *)

ShapeDocs == <<<<"a", "-", "1">>, <<"a", "-", "2">>, <<"a", "-", "1", "2">>>>

ShapeIds == <<1, 2, 12>>

\* a free-text cell: missing, whitespace only, or text with whitespace around
SummaryCells == {NaN, <<" ", "nbsp">>, <<" ", "t", " ">>}

ShapeCells == [has_pdid : BOOLEAN, program_name : {NaN, <<"x">>},
               summary : SummaryCells, notes : {NaN, <<"u">>}]

ShapeXRow(i, c) ==
    [document_id |-> ShapeDocs[i], source |-> SrcSample,
     program_description_id |-> IF c.has_pdid THEN 8 + i ELSE NULL,
     program_name |-> c.program_name, summary |-> c.summary, notes |-> c.notes]

ShapeInit ==
    /\ \E n \in 1..MaxShapeRows :
          /\ \E mc \in {MasterCols, MasterCols \ {"program_name"}} :
                m = Table(mc, [i \in 1..n |-> MRow(ShapeIds[i], <<"a">>)])
          /\ \E gone \in {{}, {"program_name"}, {"summary"}} :
             \E r \in [1..n -> ShapeCells] :
                x = Table((XCols \cup {"notes"}) \ gone,
                          [i \in 1..n |-> ShapeXRow(i, r[i])])
    /\ variant \in Variants
    /\ d = DFile
    /\ ids = StrategyA(x)
    /\ method = "document_id"
    /\ Validate(m, ids) = "ok"
    /\ merged = Merge(m, ids)
    /\ pc = "joined"
    /\ payload = NoPayload
    /\ db = EmptyStore /\ db0 = db /\ tx = NoTx /\ conn = "none"
    /\ err = NoErr /\ hist = <<>>
    /\ api = ApiIdle
    /\ other = NoOther

ShapeNext == ShapeOk \/ ShapeFail

SpecShape == ShapeInit /\ [][ShapeNext]_vars

----------------------------------------------------------------------------
(* Dimension extraction on its own: a validated merge, one call of the      *)
(* shaper.  The school and discipline cells of the master rows and the rows *)
(* and columns of the disciplines file vary.                                *)

\* school and discipline cells of a master row: two schools, a school name
\* that is missing or differs, two disciplines
DimCells == [school_id : {5, 6}, school_name : {NaN, <<"s">>, <<"t">>},
             discipline_id : {1, 2}]

DimMRow(i, c) ==
    [MRow(ShapeIds[i], <<"a">>) EXCEPT !.school_id = c.school_id,
                                       !.school_name = c.school_name,
                                       !.discipline_id = c.discipline_id]

\* rows of a disciplines file: both disciplines, and discipline 1 under a
\* second name
DimDRows == {[discipline_id |-> 1, discipline |-> <<"s">>],
             [discipline_id |-> 2, discipline |-> <<"s">>],
             [discipline_id |-> 1, discipline |-> <<"t">>]}

DimInit ==
    /\ \E n \in 1..MaxDimRows :
          /\ \E r \in [1..n -> DimCells] :
                m = Table(MasterCols, [i \in 1..n |-> DimMRow(i, r[i])])
          /\ x = Table(XCols, [i \in 1..n |-> XRow(ShapeDocs[i], SrcSample, 8 + i)])
    /\ \E k \in 0..MaxDRows : \E r \in [1..k -> DimDRows] :
       \E dc \in {DCols, DCols \ {"discipline"}} :
          d = Table(dc, r)
    /\ variant \in Variants
    /\ ids = StrategyA(x)
    /\ method = "document_id"
    /\ Validate(m, ids) = "ok"
    /\ merged = Merge(m, ids)
    /\ pc = "joined"
    /\ payload = NoPayload
    /\ db = EmptyStore /\ db0 = db /\ tx = NoTx /\ conn = "none"
    /\ err = NoErr /\ hist = <<>>
    /\ api = ApiIdle
    /\ other = NoOther

SpecDim == DimInit /\ [][ShapeNext]_vars

----------------------------------------------------------------------------
(* The loader next to the read API *)

ReadMaster == Table(MasterCols, <<MRow(1, <<"a">>), MRow(2, <<"a">>)>>)

\* one description per stream, or two descriptions of stream 1, none of
\* stream 2 and one of stream 12 (which validation lets through)
ReadXFiles ==
    {Table(XCols, <<XRow(<<"a", "-", "1">>, SrcSample, 9),
                    XRow(<<"a", "-", "2">>, SrcSample, 10)>>),
     Table(XCols, <<XRow(<<"a", "-", "1">>, SrcSample, 9),
                    XRow(<<"a", "-", "1">>, SrcSample, 10),
                    XRow(<<"a", "-", "1", "2">>, SrcSample, 11)>>)}

\* a run that has shaped its payload and is about to load it, and no
\* request in progress
ReadInit ==
    /\ variant \in Variants
    /\ d = DFile
    /\ m = ReadMaster
    /\ x \in ReadXFiles
    /\ ids = StrategyA(x)
    /\ method = "document_id"
    /\ Validate(m, ids) = "ok"
    /\ merged = Merge(m, ids)
    /\ payload = Shape(variant, d, m, x, merged)
    /\ pc = "shaped"
    /\ db \in PriorStores
    /\ db0 = db
    /\ tx = NoTx
    /\ conn = "none"
    /\ err = NoErr
    /\ hist = <<>>
    /\ api = ApiIdle
    /\ other = NoOther

ReadNext ==
    \/ Connect \/ ConnectFail
    \/ Truncate
    \/ InsertDisciplines \/ InsertSchools
    \/ InsertProgramStreams \/ InsertProgramDescriptions
    \/ InsertSectionRows
    \/ Commit \/ CommitRaises \/ StatementRaises
    \/ Rollback \/ RollbackRaises
    \/ Interrupt \/ Kill
    \/ Close
    \/ ApiBegin
    \/ list_disciplines
    \/ ProgramQuery \/ DescriptionQuery \/ SectionsQuery
    \/ ApiStatementRaises
    \/ ApiClose

SpecRead == ReadInit /\ [][ReadNext]_vars

----------------------------------------------------------------------------
(* Two runs against one store.  One run steps at a time; the other one is   *)
(* kept in `other` and the two change places at any moment.                 *)

\* the run that is stepping, as a record
ThisRun ==
    [variant |-> variant, d |-> d, m |-> m, x |-> x, pc |-> pc, ids |-> ids,
     method |-> method, merged |-> merged, payload |-> payload, tx |-> tx,
     conn |-> conn, err |-> err]

\* the scheduler passes from one process to the other
Switch ==
    /\ other.pc # "none"
    /\ other' = ThisRun
    /\ variant' = other.variant /\ d' = other.d /\ m' = other.m /\ x' = other.x
    /\ pc' = other.pc /\ ids' = other.ids /\ method' = other.method
    /\ merged' = other.merged /\ payload' = other.payload /\ tx' = other.tx
    /\ conn' = other.conn /\ err' = other.err
    /\ UNCHANGED <<db, db0, hist, api>>

\* a run over mt and xt that has shaped its payload and is about to load it
ShapedRun(v, mt, xt) ==
    [variant |-> v, d |-> DFile, m |-> mt, x |-> xt, pc |-> "shaped",
     ids |-> StrategyA(xt), method |-> "document_id",
     merged |-> Merge(mt, StrategyA(xt)),
     payload |-> Shape(v, DFile, mt, xt, Merge(mt, StrategyA(xt))),
     tx |-> NoTx, conn |-> "none", err |-> NoErr]

\* the source files of three exports: streams 1 and 2; stream 1 under
\* another name; and streams 1 and 2 with a second master row for stream 1
TwoFiles ==
    {<<ReadMaster,
       Table(XCols, <<XRow(<<"a", "-", "1">>, SrcSample, 9),
                      XRow(<<"a", "-", "2">>, SrcSample, 10)>>)>>,
     <<Table(MasterCols, <<MRow(1, <<"b">>)>>),
       Table(XCols, <<XRow(<<"a", "-", "1">>, SrcSample, 10)>>)>>,
     <<Table(MasterCols, <<MRow(1, <<"a">>), MRow(2, <<"a">>), MRow(1, <<"b">>)>>),
       Table(XCols, <<XRow(<<"a", "-", "1">>, SrcSample, 9),
                      XRow(<<"a", "-", "2">>, SrcSample, 10),
                      XRow(<<"a", "-", "1", "2">>, SrcSample, 9)>>)>>}

TwoInit ==
    /\ \E f, g \in TwoFiles : \E v, w \in {"op", "assets"} :
          /\ f # g
          /\ Validate(f[1], StrategyA(f[2])) = "ok"
          /\ Validate(g[1], StrategyA(g[2])) = "ok"
          /\ variant = v /\ d = DFile /\ m = f[1] /\ x = f[2]
          /\ ids = StrategyA(x) /\ method = "document_id"
          /\ merged = Merge(m, ids)
          /\ payload = Shape(v, d, m, x, merged)
          /\ other = ShapedRun(w, g[1], g[2])
    /\ pc = "shaped"
    /\ db \in PriorStores
    /\ db0 = db
    /\ tx = NoTx
    /\ conn = "none"
    /\ err = NoErr
    /\ hist = <<>>
    /\ api = ApiIdle

TwoNext ==
    \/ Connect \/ ConnectFail
    \/ Truncate
    \/ InsertDisciplines \/ InsertSchools
    \/ InsertProgramStreams \/ InsertProgramDescriptions
    \/ InsertSectionRows
    \/ Commit \/ CommitRaises \/ StatementRaises
    \/ Rollback \/ RollbackRaises
    \/ Interrupt \/ Kill
    \/ Close
    \/ Switch

SpecTwo == TwoInit /\ [][TwoNext]_vars

----------------------------------------------------------------------------
(* Properties *)

LoadSteps == {"truncate", "disciplines", "schools", "program_streams",
              "program_descriptions", "sections"}

ValidationKinds == {"extraction incomplete", "id not unique/complete",
                    "join cardinality mismatch"}

\* the run is past the three validation rules and none of them aborted it
PassedValidation ==
    /\ pc \notin {"start", "extracted", "nonnull", "unique"}
    /\ err.at \notin {"extract", "nullcheck", "uniqcheck", "join"}

\* the run committed and nothing was raised
Committed == pc \in {"finally", "done"} /\ err.kind = "none"

Range(s) == {s[i] : i \in 1..Len(s)}

\* C1: when a loader statement before the commit raises, the error leaves
\* the run (the run never ends as done), the store holds what it held when
\* the run started, and once the handler has run nothing of the transaction
\* is left and the connection is closed.
C1_LoadAtomicity ==
    (err.kind = "load" /\ err.at \in LoadSteps) =>
        /\ pc \in {"except", "finally", "failed"}
        /\ db = db0
        /\ (pc = "finally" /\ ~err.chained => ~tx.active)
        /\ (pc = "failed" => ~tx.active /\ conn = "closed")

\* a run over a populated store whose section insert raised
C1_Witness ==
    /\ pc = "failed" /\ err.kind = "load" /\ err.at = "sections"
    /\ db0 = OldStore /\ db = OldStore

\* C2: every commit of a run over the same source files leaves the same
\* content in the five tables, section identity values included.
C2_LoadIdempotence ==
    \A i, j \in 1..Len(hist) : hist[i] = hist[j]

\* the second run committed over what the first one loaded
C2_Witness ==
    /\ pc = "done" /\ Len(hist) = 2 /\ db0 = hist[1]
    /\ hist[1].sections # <<>> /\ hist[1].program_streams # {}

\* C3: after a commit each table holds exactly the shaped rows of the run.
C3_FullReplace ==
    Committed =>
        /\ db.disciplines = Range(payload.disciplines)
        /\ db.schools = Range(payload.schools)
        /\ db.program_streams = Range(payload.program_streams)
        /\ db.program_descriptions = Range(payload.program_desc)
        /\ Len(db.sections) = Len(payload.section_rows)
        /\ \A k \in 1..Len(db.sections) :
              /\ db.sections[k].program_description_id
                     = payload.section_rows[k].program_description_id
              /\ db.sections[k].section_name = payload.section_rows[k].section_name
              /\ db.sections[k].section_text = payload.section_rows[k].section_text

\* what the three rules are meant to establish, stated on the source files
InputValidated ==
    LET r == extract_program_stream_id(x)
    IN  /\ r.method # "ValueError"
        /\ Validate(m, r.ids) = "ok"

\* C4: a connection, a transaction or a change of the store exists only in
\* runs whose input was accepted by the extractor and passed the three
\* rules; a run that ended in an extraction or validation failure has no
\* connection, no transaction and an unchanged store.
C4_NoWriteBeforeValidation ==
    /\ (conn # "none" \/ tx.active \/ db # db0) => InputValidated
    /\ (err.kind \in ValidationKinds \cup {"unresolvable identifier"}) =>
           (pc = "failed" /\ conn = "none" /\ ~tx.active /\ db = db0)

\* a validation failure over a populated store
C4_Witness ==
    /\ pc = "failed" /\ err.kind = "join cardinality mismatch"
    /\ db = OldStore /\ conn = "none"

\* C5: once validation has passed, every master id is matched by exactly
\* one description row, and every stream of a committed store has exactly
\* one description.
C5_OneDescriptionPerStream ==
    /\ PassedValidation =>
          \A i \in 1..NRows(m) :
              Cardinality({j \in 1..Len(ids) :
                              ids[j] = m.rows[i].program_stream_id}) = 1
    /\ Committed =>
          \A st \in db.program_streams :
              Cardinality({p \in db.program_descriptions :
                              p.program_stream_id = st.program_stream_id}) = 1

\* the extracted ids are non-null, pairwise distinct and exactly the ids of
\* the master rows
GoodInput ==
    /\ method # "none"
    /\ Len(ids) = NRows(m)
    /\ \A j \in 1..Len(ids) : ids[j] # NULL
    /\ \A j, k \in 1..Len(ids) : j # k => ids[j] # ids[k]
    /\ Range(ids) = {m.rows[i].program_stream_id : i \in 1..NRows(m)}

\* C6: on such input no validation rule aborts the run, and the merged
\* table has one row per master row, pairing it with the description row of
\* the same id.
C6_LosslessJoin ==
    GoodInput =>
        /\ err.kind \notin ValidationKinds
        /\ (pc \notin {"extracted", "nonnull", "unique"} =>
               /\ Len(merged) = NRows(m)
               /\ \A i \in 1..NRows(m) :
                     /\ Cardinality({k \in 1..Len(merged) : merged[k][1] = i}) = 1
                     /\ \A k \in 1..Len(merged) :
                           merged[k][1] = i =>
                               ids[merged[k][2]] = m.rows[i].program_stream_id)

\* two master rows joined to their two descriptions
C6_Witness ==
    /\ GoodInput /\ pc = "joined" /\ NRows(m) = 2 /\ Len(merged) = 2

\* ids that occur in more than one description row
DupIds(s) == {s[i] : i \in {k \in 1..Len(s) : \E j \in 1..Len(s) : j # k /\ s[j] = s[k]}}

\* C7: when all extracted ids are non-null and one of them occurs twice,
\* validation ends with the uniqueness error and the error names that id.
C7_DuplicateIsUniquenessError ==
    (/\ method # "none"
     /\ pc \notin {"extracted", "nonnull", "unique"}
     /\ Bad(ids) = 0
     /\ DupIds(ids) # {}) =>
        /\ err.kind = "id not unique/complete"
        /\ DupIds(ids) \subseteq err.named

\* the identifier as it was before NBSP and BOM were injected and
\* whitespace put around it
Denoised(v) == Strip(SelectSeq(v, LAMBDA c : c \notin {"nbsp", "bom"}))

\* "<prefix>-<digits>" with the hyphen at h
WellFormedAt(b, h) ==
    /\ 2 <= h /\ h < Len(b)
    /\ b[h] = "-"
    /\ \A k \in (h + 1)..Len(b) : IsDigit(b[k])

WellFormed(b) == \E h \in 1..Len(b) : WellFormedAt(b, h)

DigitsOf(b) ==
    LET h == CHOOSE k \in 1..Len(b) : WellFormedAt(b, k)
    IN  SubSeq(b, h + 1, Len(b))

\* C8: every row whose identifier is "<prefix>-<digits>" with NBSP and BOM
\* injected anywhere and whitespace around it gets <digits> as its id.
C8_ExtractionRobustToNoise ==
    (pc = "extracted" /\ HasCol(x, "document_id")) =>
        \A i \in 1..NRows(x) :
            LET v == x.rows[i].document_id
            IN  (v # NaN /\ WellFormed(Denoised(v))) =>
                    ids[i] = DecVal(DigitsOf(Denoised(v)))

\* C9: the method is document_id exactly when the column exists and
\* Strategy A meets its threshold, and then the ids are Strategy A's; it is
\* source_url exactly when that is not so and Strategy B on the source
\* column meets its threshold, and then the ids are Strategy B's.
C9_StrategySelection ==
    pc # "start" =>
        LET n == NRows(x)
            kA == Cardinality({i \in 1..n : DocId(x.rows[i].document_id) # NULL})
            kB == Cardinality({i \in 1..n : SrcId(x.rows[i].source) # NULL})
            okA == "document_id" \in x.cols /\ kA >= Threshold(n)
            okB == "source" \in x.cols /\ kB >= Threshold(n)
        IN  /\ (method = "document_id") <=> okA
            /\ (method = "source_url") <=> (~okA /\ okB)
            /\ method = "document_id" =>
                   \A i \in 1..n : ids[i] = DocId(x.rows[i].document_id)
            /\ method = "source_url" =>
                   \A i \in 1..n : ids[i] = SrcId(x.rows[i].source)

\* Strategy A won although Strategy B parses more rows
C9_Witness ==
    /\ pc = "extracted" /\ method = "document_id"
    /\ NotNa(StrategyB(x)) > NotNa(ids)

\* C10: a strategy is accepted only with at least 95% of the rows parsed,
\* and at least one.
C10_AcceptanceThreshold ==
    method \in {"document_id", "source_url"} =>
        /\ 100 * NotNa(ids) >= 95 * Len(ids)
        /\ NotNa(ids) >= 1

\* the names the description header and the join reserve
ReservedCols == {"program_stream_id_extracted", "program_description_id",
                 "document_id", "source", "program_name", "match_iteration_id",
                 "match_iteration_name", "n_program_description_sections"}

\* C11: no shaped section row has an empty or all-whitespace text, and none
\* is named after the join-helper column or a reserved metadata/id column.
C11_SectionFlatteningSafety ==
    pc = "shaped" =>
        \A k \in 1..Len(payload.section_rows) :
            LET s == payload.section_rows[k]
            IN  /\ \E i \in 1..Len(s.section_text) : ~IsSpace(s.section_text[i])
                /\ s.section_name \notin ReservedCols

\* a description with a whitespace-only cell beside a cell with text
C11_Witness ==
    /\ pc = "shaped" /\ "summary" \in x.cols
    /\ \E i \in 1..NRows(x) :
          /\ x.rows[i].program_description_id # NULL
          /\ x.rows[i].summary = <<" ", "nbsp">>
          /\ x.rows[i].notes = <<"u">>
    /\ payload.section_rows # <<>>

\* positions between the acquisition of the connection and its release
InsideLoader == {"connected", "truncated", "disciplines", "schools",
                 "program_streams", "program_descriptions", "sections",
                 "except", "finally"}

\* C12: the connection is open only inside the loader; once a run that
\* acquired it has ended, by commit, by a raising step or by a raising
\* rollback, no transaction is left and the connection is closed.
C12_ScopedConnection ==
    /\ conn = "open" => pc \in InsideLoader
    /\ pc \in {"done", "failed"} => (conn # "open" /\ ~tx.active)
    /\ (pc = "done" \/ (pc = "failed" /\ err.kind = "load")) => conn = "closed"

\* a run whose rollback raised after a failed statement
C12_Witness ==
    /\ pc = "failed" /\ err.kind = "load" /\ err.chained
    /\ conn = "closed" /\ ~tx.active

\* C13: a run interrupted or killed between the truncate and the commit
\* commits nothing: the store holds what it held when the run started.
C13_ExternalTerminationHarmless ==
    err.kind \in {"interrupt", "killed"} =>
        /\ db = db0
        /\ (pc = "failed" => ~tx.active /\ conn # "open")

\* a run killed after the section insert, over a populated store
C13_Witness ==
    /\ pc = "failed" /\ err.kind = "killed" /\ err.at = "commit"
    /\ db0 = OldStore /\ db = OldStore

AscendingNames(secs) ==
    \A i, j \in 1..Len(secs) :
        i < j => \E a, b \in 1..Len(SectionNameOrder) :
                    /\ a <= b
                    /\ secs[i].section_name = SectionNameOrder[a]
                    /\ secs[j].section_name = SectionNameOrder[b]

\* C15: GET /programs/{id} answers 404 exactly when no program_streams row
\* has the identifier; for an identifier that exists it returns the program
\* header, the header of one of the stream's descriptions (null when there
\* is none) and the sections of that description and no others, ordered by
\* section name; on both paths, and when a query raises, the connection is
\* closed when the handler is left
C15_ProgramDetail ==
    /\ (api.req = "detail" /\ api.pc = "finally" /\ api.resp.status # 500)
          => LET ps == {r \in db.program_streams :
                           r.program_stream_id = api.id}
                 pds == {r \in db.program_descriptions :
                            r.program_stream_id = api.id}
             IN  /\ api.resp.status \in {200, 404}
                 /\ api.resp.status = 404 <=> ps = {}
                 /\ api.resp.status = 200 =>
                       LET b == api.resp.body
                       IN  /\ b.program = ps
                           /\ Cardinality(b.program) = 1
                           /\ b.description = {} <=> pds = {}
                           /\ Cardinality(b.description) <= 1
                           /\ b.description = {} => b.sections = <<>>
                           /\ \A h \in b.description :
                                 /\ \E r \in pds : h = DescriptionHeader(r)
                                 /\ \A k \in 1..Len(b.sections) :
                                       \E q \in 1..Len(db.sections) :
                                          /\ db.sections[q].program_description_id
                                                = h.program_description_id
                                          /\ db.sections[q].section_name
                                                = b.sections[k].section_name
                                          /\ db.sections[q].section_text
                                                = b.sections[k].section_text
                                 /\ Len(b.sections) =
                                       Len(SelectSeq(db.sections,
                                              LAMBDA q : q.program_description_id
                                                         = h.program_description_id))
                                 /\ AscendingNames(b.sections)
    /\ api.pc = "done" => api.conn = "closed"
    /\ api.conn = "open" => api.pc \in {"connected", "got_ps", "got_pd", "finally"}

\* the answer for stream 1 of a store in which it has two descriptions: one
\* of them and its section
C15_Witness ==
    /\ api.req = "detail" /\ api.id = 1 /\ api.pc = "finally"
    /\ api.resp.status = 200
    /\ Cardinality({r \in db.program_descriptions : r.program_stream_id = 1}) = 2
    /\ api.resp.body.description # {}
    /\ api.resp.body.sections # <<>>

\* C16: the three validation rules run in the order null check, distinct
\* count against the master row count, merged row count, and the run aborts
\* at the first rule that fails, with that rule's error kind: a rule is
\* reached only if the earlier ones passed, and an input that breaks several
\* rules reports the earliest one
C16_ValidationRuleOrder ==
    /\ err.at = "nullcheck"
          => /\ err.kind = "extraction incomplete" /\ pc = "failed"
             /\ Bad(ids) # 0
    /\ err.at = "uniqcheck"
          => /\ err.kind = "id not unique/complete" /\ pc = "failed"
             /\ Bad(ids) = 0 /\ Uniq(ids) # NRows(m)
    /\ err.at = "join"
          => /\ err.kind = "join cardinality mismatch" /\ pc = "failed"
             /\ Bad(ids) = 0 /\ Uniq(ids) = NRows(m)
             /\ Len(Merge(m, ids)) # NRows(m)
    /\ Bad(ids) # 0
          => \/ pc = "extracted"
             \/ pc = "failed" /\ err.kind = "extraction incomplete"
    /\ (pc \notin {"start", "extracted"} /\ err.at # "extract"
           /\ Bad(ids) = 0 /\ Uniq(ids) # NRows(m))
          => \/ pc = "nonnull"
             \/ pc = "failed" /\ err.kind = "id not unique/complete"
    /\ PassedValidation
          => Bad(ids) = 0 /\ Uniq(ids) = NRows(m) /\ Len(merged) = NRows(m)

\* a run over a row without identifier next to a duplicated identifier, with
\* a distinct count that differs from the master's: it reports the null rule
C16_Witness ==
    /\ pc = "failed" /\ err.kind = "extraction incomplete"
    /\ Bad(ids) # 0
    /\ DupIds(ids) \ {NULL} # {}
    /\ Uniq(ids) # NRows(m)

\* C17: no description row is silently lost: in a run that passed validation
\* and committed, every row of the description file is paired with exactly
\* one merged row and so yields exactly one program_descriptions row, and a
\* run in which some description row has no identifier, or an identifier
\* that no master row has, never gets past validation
C17_NoDescriptionRowLost ==
    /\ Committed
          => /\ Len(payload.program_desc) = NRows(x)
             /\ \A j \in 1..NRows(x) :
                   Cardinality({k \in 1..Len(merged) : merged[k][2] = j}) = 1
    /\ PassedValidation
          => \A j \in 1..Len(ids) :
                /\ ids[j] # NULL
                /\ \E i \in 1..NRows(m) : m.rows[i].program_stream_id = ids[j]

\* the value of program_name on one side of a merged row, NaN when the
\* side has no such column
SideName(t, i) ==
    IF HasCol(t, "program_name") THEN t.rows[i].program_name ELSE NaN

\* C18: for every merged row the projected program_name of
\* program_descriptions is the description-side value if it is present,
\* else the master-side value; shaping fails if the field is absent from
\* both sources, and only then
C18_NameCollisionResolution ==
    /\ pc = "shaped"
          => \A k \in 1..Len(merged) :
                LET mv == SideName(m, merged[k][1])
                    xv == SideName(x, merged[k][2])
                IN  payload.program_desc[k].program_name
                       = IF xv # NaN THEN xv ELSE mv
    /\ (pc = "failed" /\ err.at = "shape")
          <=> (pc # "joined" /\ ~HasCol(m, "program_name")
                             /\ ~HasCol(x, "program_name"))

\* the cells of the description file that hold a section: a non-reserved
\* column and a row whose cell is present and not blank after trimming
SectionCells ==
    {c \in (1..NRows(x)) \X (x.cols \ ReservedCols) :
        /\ x.rows[c[1]][c[2]] # NaN
        /\ Strip(x.rows[c[1]][c[2]]) # <<>>}

\* C19: section flattening is complete: every such cell of every description
\* row yields exactly one section row (program_description_id, column name,
\* trimmed text), and the number of section rows is the number of such
\* cells
C19_SectionFlatteningComplete ==
    pc = "shaped"
       => /\ Len(payload.section_rows) = Cardinality(SectionCells)
          /\ \A c \in SectionCells :
                Cardinality({k \in 1..Len(payload.section_rows) :
                    /\ payload.section_rows[k].program_description_id
                          = x.rows[c[1]].program_description_id
                    /\ payload.section_rows[k].section_name = c[2]
                    /\ payload.section_rows[k].section_text
                          = Strip(x.rows[c[1]][c[2]])}) = 1

\* the positions inside the load transaction, in the order claimed
LoadOrder == <<"connected", "truncated", "disciplines", "schools",
               "program_streams", "program_descriptions", "sections">>

\* the tables not yet written at position k hold nothing in the transaction
NotYetWritten(k) ==
    /\ \A j \in (k + 1)..6 : tx.s[LoadOrder[j]] = {}
    /\ k < 7 => tx.s.sections = <<>>

\* one step of the run keeps the order: a position inside the transaction
\* is left for the next one or for the error path, and the committed store
\* changes only after the section insert
OrderedStep ==
    /\ \A k \in 1..7 :
          (pc = LoadOrder[k] /\ pc' # pc)
             => \/ k < 7 /\ pc' = LoadOrder[k + 1]
                \/ k = 7 /\ pc' = "finally" /\ err' = NoErr
                \/ pc' \in {"except", "finally", "failed"} /\ err' # NoErr
    /\ (db' # db \/ hist' # hist) => pc = "sections"
    /\ tx'.s # tx.s
          => \/ pc \in {"shaped", "sections", "except", "finally"}
             \/ pc' \in {"start", "failed"}
             \/ \E k \in 1..6 : pc = LoadOrder[k] /\ pc' = LoadOrder[k + 1]

\* C20: inside the load transaction the steps occur in the order truncate,
\* disciplines, schools, program_streams, program_descriptions, sections,
\* commit: after the truncate a table holds rows only once its own step has
\* run, so no child table is written before its parents, and nothing is
\* committed before the section insert has finished
C20_LoaderStepOrder ==
    /\ [](\A k \in 2..7 : pc = LoadOrder[k] => NotYetWritten(k))
    /\ [][OrderedStep]_vars

\* a committed run that wrote rows to all five tables
C20_Witness ==
    /\ Committed /\ pc = "finally"
    /\ db.disciplines # {} /\ db.schools # {} /\ db.program_streams # {}
    /\ db.program_descriptions # {} /\ db.sections # <<>>
    /\ db0 = EmptyStore

\* the payload has been shaped
Shaped == pc \notin {"start", "extracted", "nonnull", "unique", "joined"}
          /\ payload # NoPayload

\* C21: whenever validation has passed and the payload is shaped, every
\* section row's program_description_id is the program_description_id of
\* some shaped program_descriptions row
C21_SectionsHaveParent ==
    (PassedValidation /\ Shaped)
       => \A k \in 1..Len(payload.section_rows) :
             \E j \in 1..Len(payload.program_desc) :
                payload.program_desc[j].program_description_id
                   = payload.section_rows[k].program_description_id

\* C22: in a shaped payload every program_streams row's school_id is the
\* school_id of a shaped schools row and its discipline_id is the
\* discipline_id of a shaped disciplines row
C22_StreamDimensionsPresent ==
    pc = "shaped"
       => \A k \in 1..Len(payload.program_streams) :
             /\ \E j \in 1..Len(payload.schools) :
                   payload.schools[j].school_id
                      = payload.program_streams[k].school_id
             /\ \E j \in 1..Len(payload.disciplines) :
                   payload.disciplines[j].discipline_id
                      = payload.program_streams[k].discipline_id

\* C23: in a shaped payload no two schools rows share a school_id and no
\* two disciplines rows share a discipline_id
C23_DimensionKeysUnique ==
    pc = "shaped"
       => /\ \A j, k \in 1..Len(payload.schools) :
                payload.schools[j].school_id = payload.schools[k].school_id
                   => j = k
          /\ \A j, k \in 1..Len(payload.disciplines) :
                payload.disciplines[j].discipline_id
                   = payload.disciplines[k].discipline_id => j = k

\* the other orchestrated entry point
OtherJob(v) == IF v = "op" THEN "assets" ELSE "op"

RECURSIVE TrailingDigits(_)
TrailingDigits(s) ==
    IF s = <<>> \/ ~IsDigit(s[Len(s)]) THEN <<>>
    ELSE TrailingDigits(SubSeq(s, 1, Len(s) - 1)) \o <<s[Len(s)]>>

\* C26: for every normalised identifier the value of m2.fillna(m1) is the
\* trailing digit run m1 alone, which is the longest run of digits the
\* string ends in, and it is null exactly when the string does not end in
\* a digit; the identifiers Strategy A returns are the numbers of those
\* runs
C26_HyphenPatternRedundant ==
    HasCol(x, "document_id")
       => \A i \in 1..NRows(x) :
             LET doc == CleanText(x.rows[i].document_id)
                 out == FillNa(M2(doc), M1(doc))
             IN  /\ out = M1(doc)
                 /\ out = NaN <=> (doc = <<>> \/ ~IsDigit(doc[Len(doc)]))
                 /\ out # NaN => out = TrailingDigits(doc)
                 /\ (pc = "extracted" /\ method = "document_id")
                       => ids[i] = (IF TrailingDigits(doc) = <<>> THEN NULL
                                    ELSE DecVal(TrailingDigits(doc)))

\* an identifier with two hyphens, digits between them and digits at its
\* end: the extracted id is the number at the end
C26_Witness ==
    /\ pc = "extracted" /\ method = "document_id" /\ NRows(x) = 1
    /\ x.rows[1].document_id = <<"1", "-", "2", "-", "1">>
    /\ ids = <<1>>

\* the store s holds the complete row sets of the payload p and nothing else
HoldsPayload(s, p) ==
    /\ s.disciplines = Range(p.disciplines)
    /\ s.schools = Range(p.schools)
    /\ s.program_streams = Range(p.program_streams)
    /\ s.program_descriptions = Range(p.program_desc)
    /\ Len(s.sections) = Len(p.section_rows)
    /\ \A k \in 1..Len(s.sections) :
          /\ s.sections[k].program_description_id
                = p.section_rows[k].program_description_id
          /\ s.sections[k].section_name = p.section_rows[k].section_name
          /\ s.sections[k].section_text = p.section_rows[k].section_text

\* C25: when two runs with different payloads overlap against one store,
\* every committed content of the store is the pre-run content or the
\* complete row sets of exactly one of the two runs
C25_OverlappingRunsDoNotMix ==
    other.pc # "none"
       => /\ \A i \in 1..Len(hist) :
                \/ HoldsPayload(hist[i], payload)
                \/ HoldsPayload(hist[i], other.payload)
          /\ db = db0 \/ \E i \in 1..Len(hist) : db = hist[i]

============================================================================
